---- MODULE Spec2Model ----
(***************************************************************************)
(* Model of the output-routing subsystem of slack-llm-runner:              *)
(*   - EnvelopeParser   (src/src/streaming/envelopeParser.ts)              *)
(*   - FullStreamer     (src/src/streaming/fullStreamer.ts)                *)
(*   - LogWriter/Router (src/src/streaming/logWriter.ts, router.ts)        *)
(*   - SessionManager   (src/src/cli/session.ts, runner part)              *)
(* Text is a sequence of characters; a character is a one-element string   *)
(* or a named control character ("ESC", "CR", "LF", "SP", "I_DOT", ...).   *)
(***************************************************************************)
EXTENDS Integers, Sequences, FiniteSets, TLC

VARIABLES
  parser,     \* the EnvelopeParser's fields, and the envelopes it has emitted
  shadow,     \* a parser constructed fresh at the last unclosed-timeout / start
  base,       \* what the parser had emitted when shadow was constructed
  rest,       \* text the subprocess has still to produce
  scen,       \* the scenario the input text was built from
  fed,        \* text pushed while activated, as long as no timer fired and no flush ran
  hist,       \* the last timer or flush event: what was captured and emitted before it
  timeouts,   \* number of unclosed-timeout firings so far
  flushes     \* number of flush() calls so far

VARIABLES
  envelope,    \* OutputRouter: opts.envelope (TRUE: envelope mode, FALSE: full-output mode)
  started,     \* OutputRouter.start() has been called
  logWriter,   \* LogWriter: its stream and the session's log file
  streamer,    \* the FullStreamer's fields
  chat,        \* the chat thread: the content of each message, by message ts
  calls,       \* reporter calls in flight, each with what continues after it
  script,      \* chunks the subprocess has still to print
  pushed,      \* chunks pushed to the router so far
  accepted,    \* stripped text the streamer has buffered so far
  cut,         \* the slices the streamer has cut off its buffer so far, concatenated
  lastTick,    \* the streamer's last tick: its buffer before and after
  finishCodes  \* the exit codes finish() was called with, in order

parserVars == <<shadow, base, rest, scen, fed, hist, timeouts, flushes>>

routerVars == <<envelope, started, logWriter, streamer, chat, calls, script, pushed,
                accepted, cut, lastTick, finishCodes>>

VARIABLES
  cfg,             \* the command's CommandConfig: envelope, timeout, session flag
  handles,         \* each spawn() call: where it stands, its subprocess and its closure
  sessions,        \* SessionManager.sessions: thread key -> the Session object stored
  sessionObj,      \* the Session objects: status, exitCode, and the completion notice shown
  finalising,      \* finalise() calls suspended at an await
  threadBindings,  \* SessionManager.threadBindings: the thread keys bound
  effects          \* what each callback's finalise() calls have done so far

sessionVars == <<cfg, handles, sessions, sessionObj, finalising, threadBindings, effects>>

VARIABLES
  routed,          \* CommandRouter: the last message and what handleMessage did with it
  firstSpawn,      \* the session arguments of the first spawn() on each thread key
  control          \* the last stop() or sendInput() made for a chat command, and its outcome

commandVars == <<routed, firstSpawn, control>>

vars == <<parser, parserVars, routerVars, sessionVars, commandVars>>

(***************************************************************************)
(* Characters and JavaScript string primitives                             *)
(***************************************************************************)
UpperLetters == <<"A","B","C","D","E","F","G","H","I","J","K","L","M",
                  "N","O","P","Q","R","S","T","U","V","W","X","Y","Z">>
LowerLetters == <<"a","b","c","d","e","f","g","h","i","j","k","l","m",
                  "n","o","p","q","r","s","t","u","v","w","x","y","z">>
Digits == {"0","1","2","3","4","5","6","7","8","9"}

UpperSet == {UpperLetters[i] : i \in 1..26}
LowerSet == {LowerLetters[i] : i \in 1..26}
LowerOf  == [c \in UpperSet |-> LowerLetters[CHOOSE i \in 1..26 : UpperLetters[i] = c]]

IsUpper(c) == c \in UpperSet
IsLower(c) == c \in LowerSet

\* ASCII case folding of one character (regex flag i; toLowerCase on \w text)
LowerAscii(c) == IF c \in UpperSet THEN LowerOf[c] ELSE c

RECURSIVE LowerFrom(_, _)
LowerFrom(s, i) ==
  IF i > Len(s) THEN <<>>
  ELSE (IF s[i] = "I_DOT" THEN <<"i", "DOT_ABOVE">> ELSE <<LowerAscii(s[i])>>)
       \o LowerFrom(s, i + 1)

\* String.prototype.toLowerCase: U+0130 ("I_DOT") lowercases to the two code
\* units "i" U+0307 ("DOT_ABOVE"), so the result can be longer than the input.
toLowerCase(s) ==
  IF \A i \in 1..Len(s) : s[i] # "I_DOT"
  THEN [i \in 1..Len(s) |-> LowerAscii(s[i])]
  ELSE LowerFrom(s, 1)

Min(a, b) == IF a < b THEN a ELSE b
Max(a, b) == IF a > b THEN a ELSE b

\* String.prototype.slice(from, to) with 0-based, clamped, non-negative indices
Slice(s, from, to) ==
  LET lo == Min(from, Len(s))
      hi == Max(lo, Min(to, Len(s)))
  IN  SubSeq(s, lo + 1, hi)

SliceFrom(s, from) == Slice(s, from, Len(s))

\* String.prototype.slice(-n)
SliceLast(s, n) == SliceFrom(s, Max(0, Len(s) - n))

\* String.prototype.indexOf, 0-based; -1 when absent
indexOf(s, needle) ==
  LET hits == {i \in 0..(Len(s) - Len(needle)) : \A k \in 1..Len(needle) : s[i + k] = needle[k]}
  IN  IF hits = {} THEN -1 ELSE CHOOSE i \in hits : \A j \in hits : i <= j

IsSpace(c) == c \in {"SP", "LF", "CR", "TAB"}

\* String.prototype.trim
trim(s) ==
  LET keep == {i \in 1..Len(s) : ~IsSpace(s[i])}
  IN  IF keep = {} THEN <<>>
      ELSE LET lo == CHOOSE i \in keep : \A j \in keep : i <= j
               hi == CHOOSE i \in keep : \A j \in keep : i >= j
           IN  Slice(s, lo - 1, hi)

(***************************************************************************)
(* ansiStrip.ts                                                            *)
(***************************************************************************)
\* [@-Z\\-_] : 0x40-0x5A and 0x5C-0x5F
IsEscFinal(c) == IsUpper(c) \/ c \in {"@", "BACKSLASH", "]", "^", "_"}
\* [0-?] : 0x30-0x3F
IsCsiParam(c) == c \in Digits \/ c \in {":", ";", "<", "=", ">", "?"}
\* [ -/] : 0x20-0x2F
IsCsiInter(c) == c \in {"SP", "!", "#", "$", "%", "&", "(", ")", "*", "+", ",", "-", ".", "/"}
\* [@-~] : 0x40-0x7E
IsCsiFinal(c) == IsUpper(c) \/ IsLower(c) \/ c \in {"@", "[", "BACKSLASH", "]", "^", "_", "BACKTICK", "{", "|", "}", "~"}

\* length of the longest run of characters satisfying Test(_) that starts at
\* 1-based position j of s
RunLen(s, j, Test(_)) ==
  LET ends == {k \in (j - 1)..Len(s) : \A m \in j..k : Test(s[m])}
  IN  (CHOOSE k \in ends : \A e \in ends : k >= e) - (j - 1)

\* length of the match of ANSI_RE at 1-based position i of s; 0 when none
AnsiMatchLen(s, i) ==
  IF s[i] # "ESC" \/ i + 1 > Len(s) THEN 0
  ELSE IF IsEscFinal(s[i + 1]) THEN 2
  ELSE IF s[i + 1] # "[" THEN 0
  ELSE LET p == RunLen(s, i + 2, IsCsiParam)
           q == RunLen(s, i + 2 + p, IsCsiInter)
           f == i + 2 + p + q
       IN  IF f <= Len(s) /\ IsCsiFinal(s[f]) THEN f - i + 1 ELSE 0

RECURSIVE ReplaceAnsi(_, _)
ReplaceAnsi(s, i) ==
  IF i > Len(s) THEN <<>>
  ELSE LET m == AnsiMatchLen(s, i)
       IN  IF m > 0 THEN ReplaceAnsi(s, i + m)
           ELSE <<s[i]>> \o ReplaceAnsi(s, i + 1)

stripAnsi(str) == SelectSeq(ReplaceAnsi(str, 1), LAMBDA c : c # "CR")

(***************************************************************************)
(* envelopeParser.ts                                                       *)
(***************************************************************************)
SCAN_TAIL == 40

CLOSE_TAG == <<"<","<","<","e","n","d","_","s","l","a","c","k",">",">",">">>

VALID_TYPES == { <<"p","r","o","g","r","e","s","s">>, <<"q","u","e","s","t","i","o","n">>,
                 <<"w","a","r","n","i","n","g">>, <<"d","o","n","e">>, <<"e","r","r","o","r">> }

IsWord(c) == IsUpper(c) \/ IsLower(c) \/ c \in Digits \/ c = "_"

\* OPEN_TAG_RE = /<<<slack(?::(\w+))?>>>/i anchored at 1-based position i:
\* [len |-> length of the match (0 when none), type |-> capture group 1]
OpenTagAt(s, i) ==
  LET none == [len |-> 0, type |-> <<>>]
  IN  IF i + 7 > Len(s) THEN none
      ELSE IF ~( /\ s[i] = "<" /\ s[i + 1] = "<" /\ s[i + 2] = "<"
                 /\ \A k \in 1..5 : LowerAscii(s[i + 2 + k]) = <<"s","l","a","c","k">>[k] ) THEN none
      ELSE LET j == i + 8
           IN  IF j <= Len(s) /\ s[j] = ":"
               THEN LET w == RunLen(s, j + 1, IsWord)
                    IN  IF w >= 1 /\ Slice(s, j + w, j + w + 3) = <<">",">",">">>
                        THEN [len |-> 8 + 1 + w + 3, type |-> Slice(s, j, j + w)]
                        ELSE none
               ELSE IF Slice(s, j - 1, j + 2) = <<">",">",">">>
                    THEN [len |-> 11, type |-> <<>>]
                    ELSE none

\* OPEN_TAG_RE.exec(s): [index |-> 0-based index of the leftmost match (-1 when
\* none), len, type]
OpenTagExec(s) ==
  LET hits == {i \in 1..Len(s) : OpenTagAt(s, i).len > 0}
  IN  IF hits = {} THEN [index |-> -1, len |-> 0, type |-> <<>>]
      ELSE LET i == CHOOSE h \in hits : \A g \in hits : h <= g
               m == OpenTagAt(s, i)
           IN  [index |-> i - 1, len |-> m.len, type |-> m.type]

\* the fields of a parser right after construction
NewParser ==
  [ state |-> "scanning", scanBuffer |-> <<>>, captureBuffer |-> <<>>,
    currentType |-> <<>>, activated |-> FALSE,
    activationTimer |-> "armed",   \* armed | fired | cleared
    unclosedTimer |-> "null",      \* null | armed | stale (fired or cleared handle)
    orphanTimers |-> 0,            \* armed unclosed timers no field refers to
    out |-> <<>> ]                 \* the 'envelope' events emitted, in order

Emit(p, type, text, incomplete) ==
  [p EXCEPT !.out = Append(@, [type |-> type, text |-> text, incomplete |-> incomplete])]

RECURSIVE tryScanOpen(_), tryClose(_)

\* tryScanOpen that keeps the whole scan buffer when there is no match
tryScanOpenNoTrim(p) ==
  LET match == OpenTagExec(p.scanBuffer)
  IN  IF match.index = -1
      THEN p
      ELSE LET rawType == [k \in 1..Len(match.type) |-> LowerAscii(match.type[k])]
           IN  tryClose([p EXCEPT
                 !.currentType   = IF rawType \in VALID_TYPES THEN rawType ELSE <<>>,
                 !.captureBuffer = SliceFrom(p.scanBuffer, match.index + match.len),
                 !.scanBuffer    = <<>>,
                 !.state         = "capturing",
                 !.orphanTimers  = IF p.unclosedTimer = "armed" THEN @ + 1 ELSE @,
                 !.unclosedTimer = "armed"])

tryScanOpen(p) ==
  LET match == OpenTagExec(p.scanBuffer)
  IN  IF match.index = -1
      THEN [p EXCEPT !.scanBuffer = IF Len(@) > SCAN_TAIL THEN SliceLast(@, SCAN_TAIL) ELSE @]
      ELSE LET rawType == [k \in 1..Len(match.type) |-> LowerAscii(match.type[k])]
           IN  tryClose([p EXCEPT
                 !.currentType   = IF rawType \in VALID_TYPES THEN rawType ELSE <<>>,
                 !.captureBuffer = SliceFrom(p.scanBuffer, match.index + match.len),
                 !.scanBuffer    = <<>>,
                 !.state         = "capturing",
                 !.orphanTimers  = IF p.unclosedTimer = "armed" THEN @ + 1 ELSE @,
                 !.unclosedTimer = "armed"])

tryClose(p) ==
  LET idx == indexOf(toLowerCase(p.captureBuffer), CLOSE_TAG)
  IN  IF idx = -1 THEN p
      ELSE LET text      == trim(stripAnsi(Slice(p.captureBuffer, 0, idx)))
               remainder == SliceFrom(p.captureBuffer, idx + Len(CLOSE_TAG))
               q == [Emit(p, p.currentType, text, FALSE) EXCEPT
                       !.unclosedTimer = "null",
                       !.state         = "scanning",
                       !.captureBuffer = <<>>,
                       !.scanBuffer    = remainder]
           IN  IF Len(remainder) > 0 THEN tryScanOpen(q) ELSE q

\* push without the activation gate
ParserPushUngated(p, data) ==
  IF p.state = "scanning"
  THEN tryScanOpen([p EXCEPT !.scanBuffer = @ \o data])
  ELSE tryClose([p EXCEPT !.captureBuffer = @ \o data])

\* push that keeps the chunks of before the activation in the scan buffer
ParserPushBuffersEarly(p, data) ==
  IF ~p.activated THEN [p EXCEPT !.scanBuffer = @ \o data]
  ELSE IF p.state = "scanning"
       THEN tryScanOpen([p EXCEPT !.scanBuffer = @ \o data])
       ELSE tryClose([p EXCEPT !.captureBuffer = @ \o data])

ParserPush(p, data) ==
  IF ~p.activated THEN p
  ELSE IF p.state = "scanning"
       THEN tryScanOpen([p EXCEPT !.scanBuffer = @ \o data])
       ELSE tryClose([p EXCEPT !.captureBuffer = @ \o data])

\* reset that leaves the capture buffer alone
resetKeepsCapture(p) ==
  [p EXCEPT !.state = "scanning", !.scanBuffer = <<>>, !.currentType = <<>>]

reset(p) ==
  [p EXCEPT !.state = "scanning", !.scanBuffer = <<>>, !.captureBuffer = <<>>,
            !.currentType = <<>>]

\* flush that leaves the unclosed timer alone
ParserFlushKeepsTimer(p) ==
  LET cleared == [p EXCEPT !.activationTimer = IF @ = "armed" THEN "cleared" ELSE @]
  IN  reset(IF p.state = "capturing" /\ trim(p.captureBuffer) # <<>>
            THEN Emit(cleared, p.currentType, trim(stripAnsi(p.captureBuffer)), TRUE)
            ELSE cleared)

ParserFlush(p) ==
  LET cleared == [p EXCEPT
                    !.activationTimer = IF @ = "armed" THEN "cleared" ELSE @,
                    !.unclosedTimer   = IF @ = "null" THEN "null" ELSE "stale"]
  IN  reset(IF p.state = "capturing" /\ trim(p.captureBuffer) # <<>>
            THEN Emit(cleared, p.currentType, trim(stripAnsi(p.captureBuffer)), TRUE)
            ELSE cleared)

\* flushPartial that emits but stays in CAPTURING
flushPartialNoReset(p) ==
  LET text == trim(stripAnsi(p.captureBuffer))
  IN  IF text # <<>> THEN Emit(p, p.currentType, text, TRUE) ELSE p

flushPartial(p) ==
  LET text == trim(stripAnsi(p.captureBuffer))
  IN  [(IF text # <<>> THEN Emit(p, p.currentType, text, TRUE) ELSE p) EXCEPT
         !.state = "scanning", !.captureBuffer = <<>>]

\* the activation timer's callback
Activation(p) == [p EXCEPT !.activated = TRUE, !.activationTimer = "fired"]


ActiveParser == Activation(NewParser)

(***************************************************************************)
(* Input texts of the parser: what a subprocess prints                     *)
(***************************************************************************)
PadLen      == 45   \* length of a marker-free stretch of output
LongTypeLen == 30   \* length of an over-long (invalid) type suffix
MaxFlushes  == 2    \* how many times flush() is called on one parser

Fill(n) == [i \in 1..n |-> "x"]

OpenMarker(t) ==
  <<"<","<","<","S","L","A","C","K">> \o (IF t = <<>> THEN <<>> ELSE <<":">> \o t) \o <<">",">",">">>

CloseMarker == <<"<","<","<","E","N","D","_","S","L","A","C","K",">",">",">">>

Envelope(t, body) == OpenMarker(t) \o body \o CloseMarker

TypeTags == { <<"p","r","o","g","r","e","s","s">>, <<"Q","U","E","S","T","I","O","N">>,
              <<"W","a","r","n","i","n","g">>, <<"d","o","n","e">>, <<"E","r","r","O","r">> }

Bodies == { <<"h","i">>,                          \* plain
            <<"SP","a","SP","b","LF">>,           \* to be trimmed
            <<"ESC","[","0","m","o","k","CR","LF">>,  \* colour code and CRLF
            <<"I_DOT","h">>,                      \* a non-ASCII capital letter
            <<>>, <<"SP">>,                       \* empty, blank
            <<"ESC","[","0","m">> }               \* nothing but a colour code

\* kind "round": filler, one envelope with a type tag of the closed set, trailing text
\* kind "untyped": one envelope whose open marker has no type suffix or one that is not
\*   of the closed set
\* kind "multi": two envelopes and the beginning of a third open marker
\* kind "feed": text, one envelope, text
\* kind "other": anything else
\* events: what the environment may do besides printing the text in chunks
\*   "early": print before the activation delay has elapsed
\*   "timeout": leave an envelope open until the unclosed-timeout fires
\*   "flush": exit (the owner calls flush), possibly before all text was read
Scenario(kind, events, pad, t, body, trail) ==
  [ text |-> Fill(pad) \o Envelope(t, body) \o trail,
    kind |-> kind, type |-> t, body |-> body, events |-> events ]

Done == <<"d","o","n","e">>

ErrorTag == <<"e","r","r","o","r">>

\* the text that follows the first envelope of a scenario of kind "multi": a second
\* envelope and the beginning of a third open marker
SecondEnvelope == Envelope(ErrorTag, <<"b">>)
MarkerStart == <<"<","<","<","s","l">>

\* "hello <<<SLACK:done>>>finished<<<END_SLACK>>>world"
Hello    == <<"h","e","l","l","o","SP">>
Finished == <<"f","i","n","i","s","h","e","d">>
World    == <<"w","o","r","l","d">>
HelloWorld ==
  [ text |-> Hello \o Envelope(Done, Finished) \o World,
    kind |-> "feed", type |-> Done, body |-> Finished, events |-> {} ]

Scenarios ==
       { Scenario("round", {}, 0, t, <<"SP","a","SP","b","LF">>, <<>>) : t \in TypeTags }
  \cup { Scenario("round", {}, 0, Done, b, <<>>) : b \in Bodies }
  \cup { Scenario("round", {}, PadLen, Done, <<"h","i">>, <<"w">>),
         Scenario("round", {"early"}, 0, Done, <<"h","i">>, <<>>),
         Scenario("other", {"timeout"}, 0, Done, <<"SP","a">>, Envelope(<<>>, <<"b">>)),
         Scenario("round", {"flush"}, 0, Done, <<"ESC","[","0","m","SP","a">>, <<"<","<","<","s","l">>),
         Scenario("other", {"early", "timeout", "flush"}, 0, Done, <<>>, OpenMarker(<<>>) \o <<"SP">>) }
  \cup { Scenario("untyped", {}, 0, <<>>, <<"h","i">>, <<>>),
         Scenario("untyped", {}, 0, <<"f","o","o">>, <<"h","i">>, <<>>),
         Scenario("untyped", {}, 0, <<"a","-","b">>, <<"h","i">>, <<>>),
         Scenario("untyped", {}, 0, Fill(LongTypeLen), <<"h","i">>, <<>>),
         Scenario("other", {}, 0, Done, <<"a">>,
                  Envelope(<<"e","r","r","o","r">>, <<"b">>) \o <<"<","<","<","s","l">>),
         Scenario("other", {}, 0, Done, <<"h","i">>, Fill(PadLen)) }
  \cup { Scenario("multi", {}, 0, Done, b, SecondEnvelope \o MarkerStart) :
           b \in {<<"h","i">>, <<"I_DOT","h">>} }
  \cup { HelloWorld }

(***************************************************************************)
(* The parser driven by a subprocess and its timers                        *)
(***************************************************************************)
\* the router is not part of the parser's own specification
NoControl ==
  [ op |-> "none",        \* none | stop | sendInput | initDelay
    arg |-> <<"none", 0>>,
    found |-> FALSE,
    target |-> 0,         \* the spawn() call whose process is killed or written to
    mode |-> "none",      \* the mode of the command configuration of that call
    writes |-> <<>>,      \* what was passed to handle.write, call by call
    received |-> <<>> ]   \* what the subprocess's input stream received

CommandsIdle == routed = <<>> /\ firstSpawn = <<>> /\ control = NoControl

SessionIdle ==
  /\ cfg = <<>> /\ handles = <<>> /\ sessions = <<>> /\ sessionObj = <<>>
  /\ finalising = {} /\ threadBindings = {} /\ effects = <<>>

\* the parser's own scenario bookkeeping is not part of the router's specification
HarnessIdle ==
  /\ shadow = <<>> /\ base = <<>> /\ rest = <<>> /\ scen = <<>> /\ fed = <<>>
  /\ hist = <<>> /\ timeouts = 0 /\ flushes = 0

RouterIdle ==
  /\ envelope = TRUE /\ started = FALSE
  /\ logWriter = <<>> /\ streamer = <<>> /\ chat = <<>> /\ calls = <<>>
  /\ script = <<>> /\ pushed = <<>> /\ accepted = <<>> /\ cut = <<>>
  /\ lastTick = <<>> /\ finishCodes = <<>>

ParserInit ==
  /\ RouterIdle
  /\ SessionIdle
  /\ CommandsIdle
  /\ scen \in Scenarios
  /\ rest = scen.text
  /\ parser = NewParser
  /\ shadow = ActiveParser
  /\ base = <<>>
  /\ fed = <<>>
  /\ hist = [event |-> "none", prev |-> <<>>, cap |-> <<>>, type |-> <<>>]
  /\ timeouts = 0
  /\ flushes = 0

\* setTimeout callback of the constructor
Activate ==
  /\ parser.activationTimer = "armed"
  /\ parser' = Activation(parser)
  /\ UNCHANGED <<shadow, base, rest, scen, fed, hist, timeouts, flushes>>
  /\ UNCHANGED <<routerVars, sessionVars, commandVars>>

\* the subprocess prints the next n characters as one chunk
PushChunk ==
  \E n \in 1..Len(rest) :
    LET data == Slice(rest, 0, n)
    IN  /\ parser.activated \/ "early" \in scen.events
        /\ parser' = ParserPush(parser, data)
        /\ rest' = SliceFrom(rest, n)
        /\ IF parser.activated
           THEN /\ shadow' = ParserPush(shadow, data)
                /\ fed' = IF timeouts = 0 /\ flushes = 0 THEN fed \o data ELSE <<>>
           ELSE UNCHANGED <<shadow, fed>>
        /\ UNCHANGED <<base, scen, hist, timeouts, flushes>>
        /\ UNCHANGED <<routerVars, sessionVars, commandVars>>

\* the unclosed-timeout timer fires
UnclosedTimeout ==
  /\ parser.unclosedTimer = "armed"
  /\ "timeout" \in scen.events
  /\ parser' = flushPartial([parser EXCEPT !.unclosedTimer = "stale"])
  /\ shadow' = ActiveParser
  /\ base' = parser'.out
  /\ fed' = <<>>
  /\ hist' = [event |-> "timeout", prev |-> parser.out, cap |-> parser.captureBuffer,
              type |-> parser.currentType]
  /\ timeouts' = timeouts + 1
  /\ UNCHANGED <<rest, scen, flushes>>
  /\ UNCHANGED <<routerVars, sessionVars, commandVars>>

\* the owner calls flush()
Flush ==
  /\ flushes < MaxFlushes
  /\ "flush" \in scen.events
  /\ parser' = ParserFlush(parser)
  /\ shadow' = [ActiveParser EXCEPT !.activated = parser.activated]
  /\ base' = parser'.out
  /\ fed' = <<>>
  /\ hist' = [event |-> "flush", prev |-> parser.out, cap |-> parser.captureBuffer,
              type |-> parser.currentType]
  /\ flushes' = flushes + 1
  /\ UNCHANGED <<rest, scen, timeouts>>
  /\ UNCHANGED <<routerVars, sessionVars, commandVars>>

ParserNext == Activate \/ PushChunk \/ UnclosedTimeout \/ Flush

SpecParser == ParserInit /\ [][ParserNext]_vars

(***************************************************************************)
(* logWriter.ts                                                            *)
(***************************************************************************)
NewLogWriter == [stream |-> "null", file |-> <<>>]

LogEntry(kind, data, code) == [kind |-> kind, data |-> data, code |-> code]

\* open(): the stream appends to the file; the header line is written
LogOpen(l) ==
  [stream |-> "open", file |-> Append(l.file, LogEntry("start", <<>>, 0))]

\* write that strips the control sequences first
LogWriteStripped(l, data) ==
  IF l.stream = "null" THEN l
  ELSE [l EXCEPT !.file = Append(@, LogEntry("data", stripAnsi(data), 0))]

\* write(data): this.stream?.write(data)
LogWrite(l, data) ==
  IF l.stream = "null" THEN l
  ELSE [l EXCEPT !.file = Append(@, LogEntry("data", data, 0))]

\* close(exitCode)
LogClose(l, exitCode) ==
  IF l.stream = "null" THEN l
  ELSE [stream |-> "null", file |-> Append(l.file, LogEntry("end", <<>>, exitCode))]

(***************************************************************************)
(* fullStreamer.ts                                                         *)
(***************************************************************************)
MaxChars == 2   \* opts.maxCharsPerMessage of the streamer under test

NewStreamer ==
  [ buffer |-> <<>>,
    currentTs |-> 0,          \* 0: null, else the ts of the current message
    flushTimer |-> "null",    \* null | armed | cleared
    stopped |-> FALSE ]

\* push(data)
StreamerPush(st, data) ==
  IF st.stopped THEN st ELSE [st EXCEPT !.buffer = @ \o stripAnsi(data)]

\* flush(), split branch: the slice sent to the current message, and what stays
SplitChunk(buffer) == Slice(buffer, 0, MaxChars)
SplitRest(buffer)  == SliceFrom(buffer, MaxChars)

\* a reporter call in flight: op "post" or "update", the message ts an update
\* is for, the content, and the continuation k that runs when it settles
Call(op, ts, content, k, code) ==
  [op |-> op, ts |-> ts, content |-> content, k |-> k, code |-> code]

\* message contents
\* finish(): the sentinel counts as a success too
StatusOfSentinel(exitCode) == IF exitCode <= 0 THEN "success" ELSE "failure"

\* finish(): const status = exitCode === 0 ? success mark : failure mark
Status(exitCode) == IF exitCode = 0 THEN "success" ELSE "failure"

Placeholder       == [kind |-> "placeholder", text |-> <<>>, code |-> 0, type |-> <<>>,
                      status |-> "none"]
Block(text)       == [kind |-> "block", text |-> text, code |-> 0, type |-> <<>>,
                      status |-> "none"]
Final(text, code) == [kind |-> "final", text |-> text, code |-> code, type |-> <<>>,
                      status |-> Status(code)]
EnvelopePost(msg) ==
  [kind |-> IF msg.incomplete THEN "incomplete" ELSE "envelope", status |-> "none",
   text |-> msg.text, code |-> 0, type |-> msg.type]

(***************************************************************************)
(* router.ts: one OutputRouter, its subprocess, its timers and the reporter *)
(***************************************************************************)
MaxInflight == 2   \* reporter calls that can be in flight at once
MaxFinish   == 2   \* how many times finish() is called on one router

\* exit codes passed to finish(): success, and the timeout sentinel
ExitCodes == {0, -1}

\* what the subprocess prints, chunk by chunk
FullScripts ==
  { << <<"a","b","c">>, <<"ESC","[","m","d">>, <<"e","SP">> >>,
    << <<"a">>, <<"b","c","d","e","f">> >> }

EnvelopeScripts ==
  { << OpenMarker(Done) \o <<"a">>, CloseMarker \o OpenMarker(<<>>), <<"b">> >> }

NoParser == [state |-> "null", out |-> <<>>]

\* the posts router.onEnvelope issues for the envelopes emitted between p and q
EnvelopeCalls(p, q) ==
  [i \in 1..(Len(q.out) - Len(p.out)) |->
     Call("post", 0, EnvelopePost(q.out[Len(p.out) + i]), "envelope", 0)]

RouterInit ==
  /\ envelope \in BOOLEAN
  /\ started = FALSE
  /\ logWriter = NewLogWriter
  /\ parser = IF envelope THEN NewParser ELSE NoParser
  /\ streamer = NewStreamer
  /\ chat = <<>>
  /\ calls = <<>>
  /\ script \in (IF envelope THEN EnvelopeScripts ELSE FullScripts)
  /\ pushed = <<>>
  /\ accepted = <<>>
  /\ cut = <<>>
  /\ lastTick = [kind |-> "none", before |-> <<>>, after |-> <<>>, sent |-> <<>>]
  /\ finishCodes = <<>>
  /\ HarnessIdle
  /\ SessionIdle
  /\ CommandsIdle

\* start(): open the log; in full-output mode streamer.start() posts the placeholder
RouterStart ==
  /\ ~started
  /\ started' = TRUE
  /\ logWriter' = LogOpen(logWriter)
  /\ calls' = IF envelope THEN calls
              ELSE Append(calls, Call("post", 0, Placeholder, "start", 0))
  /\ UNCHANGED <<envelope, parser, streamer, chat, script, pushed, accepted, cut,
                 lastTick, finishCodes, parserVars, sessionVars, commandVars>>

\* push(data): the subprocess prints its next chunk
RouterPush ==
  /\ started
  /\ script # <<>>
  /\ LET data == Head(script)
         q    == IF envelope THEN ParserPush(parser, data) ELSE parser
     IN  /\ logWriter' = LogWrite(logWriter, data)
         /\ parser' = q
         /\ calls' = IF envelope THEN calls \o EnvelopeCalls(parser, q) ELSE calls
         /\ streamer' = IF envelope THEN streamer ELSE StreamerPush(streamer, data)
         /\ accepted' = IF envelope \/ streamer.stopped THEN accepted
                        ELSE accepted \o stripAnsi(data)
         /\ pushed' = Append(pushed, data)
         /\ script' = Tail(script)
  /\ UNCHANGED <<envelope, started, chat, cut, lastTick, finishCodes, parserVars, sessionVars, commandVars>>

\* the parser's activation timer fires
RouterActivation ==
  /\ envelope
  /\ parser.activationTimer = "armed"
  /\ parser' = Activation(parser)
  /\ UNCHANGED <<routerVars, parserVars, sessionVars, commandVars>>

\* the parser's unclosed-timeout fires
RouterUnclosedTimeout ==
  /\ envelope
  /\ parser.unclosedTimer = "armed"
  /\ parser' = flushPartial([parser EXCEPT !.unclosedTimer = "stale"])
  /\ calls' = calls \o EnvelopeCalls(parser, parser')
  /\ UNCHANGED <<envelope, started, logWriter, streamer, chat, script, pushed, accepted,
                 cut, lastTick, finishCodes, parserVars, sessionVars, commandVars>>

\* the streamer's interval timer fires: flush() up to its first await
StreamerTick ==
  /\ ~envelope
  /\ streamer.flushTimer = "armed"
  /\ streamer.buffer # <<>> /\ streamer.currentTs # 0 /\ ~streamer.stopped
  /\ Len(calls) < MaxInflight
  /\ IF Len(streamer.buffer) > MaxChars
     THEN /\ streamer' = [streamer EXCEPT !.buffer = SplitRest(streamer.buffer)]
          /\ calls' = Append(calls, Call("update", streamer.currentTs,
                                         Block(SplitChunk(streamer.buffer)), "splitUpdate", 0))
          /\ cut' = cut \o SplitChunk(streamer.buffer)
          /\ lastTick' = [kind |-> "split", before |-> streamer.buffer,
                          after |-> streamer'.buffer, sent |-> SplitChunk(streamer.buffer)]
     ELSE /\ streamer' = streamer
          /\ calls' = Append(calls, Call("update", streamer.currentTs,
                                         Block(streamer.buffer), "inplace", 0))
          /\ cut' = cut
          /\ lastTick' = [kind |-> "inplace", before |-> streamer.buffer,
                          after |-> streamer.buffer, sent |-> streamer.buffer]
  /\ UNCHANGED <<envelope, started, logWriter, parser, chat, script, pushed, accepted,
                 finishCodes, parserVars, sessionVars, commandVars>>

\* finish(): the log is closed only if no earlier step of finish() failed
FinishLogUnisolated(l, failed, exitCode) == IF failed THEN l ELSE LogClose(l, exitCode)

\* finish(): logWriter.close(exitCode) runs whether or not an earlier step failed
FinishLog(l, failed, exitCode) == LogClose(l, exitCode)

Remove(seq, i) == SubSeq(seq, 1, i - 1) \o SubSeq(seq, i + 1, Len(seq))

\* a reporter call succeeds: the chat changes and the caller continues
CallResolves ==
  \E i \in 1..Len(calls) :
    LET c == calls[i]
        others == Remove(calls, i)
        newTs == Len(chat) + 1
    IN  /\ chat' = IF c.op = "post" THEN Append(chat, c.content)
                   ELSE [chat EXCEPT ![c.ts] = c.content]
        /\ CASE c.k = "start" ->
                  \* streamer.start(): currentTs and the interval timer are set
                  /\ streamer' = [streamer EXCEPT !.currentTs = newTs, !.flushTimer = "armed"]
                  /\ calls' = others
                  /\ logWriter' = logWriter
             [] c.k = "splitUpdate" ->
                  \* flush(): the new message is posted next
                  /\ streamer' = streamer
                  /\ calls' = Append(others, Call("post", 0, Placeholder, "splitPost", 0))
                  /\ logWriter' = logWriter
             [] c.k = "splitPost" ->
                  /\ streamer' = [streamer EXCEPT !.currentTs = newTs]
                  /\ calls' = others
                  /\ logWriter' = logWriter
             [] c.k = "finish" ->
                  \* streamer.finish() clears the buffer; router.finish() closes the log
                  /\ streamer' = [streamer EXCEPT !.buffer = <<>>]
                  /\ calls' = others
                  /\ logWriter' = FinishLog(logWriter, FALSE, c.code)
             [] OTHER ->
                  /\ streamer' = streamer
                  /\ calls' = others
                  /\ logWriter' = logWriter
        /\ UNCHANGED <<envelope, started, parser, script, pushed, accepted, cut, lastTick,
                       finishCodes, parserVars, sessionVars, commandVars>>

\* a reporter call fails, and a failed envelope post resets the parser
CallRejectsResetsParser ==
  \E i \in 1..Len(calls) :
    LET c == calls[i]
    IN  /\ calls' = Remove(calls, i)
        /\ logWriter' = IF c.k = "finish" THEN FinishLog(logWriter, TRUE, c.code) ELSE logWriter
        /\ parser' = IF c.k = "envelope" THEN reset(parser) ELSE parser
        /\ UNCHANGED <<envelope, started, streamer, chat, script, pushed, accepted,
                       cut, lastTick, finishCodes, parserVars, sessionVars, commandVars>>

\* a reporter call fails: the caller's catch runs
CallRejects ==
  \E i \in 1..Len(calls) :
    LET c == calls[i]
    IN  /\ calls' = Remove(calls, i)
        \* router.finish() catches streamer.finish()'s rejection and closes the log
        /\ logWriter' = IF c.k = "finish" THEN FinishLog(logWriter, TRUE, c.code) ELSE logWriter
        /\ UNCHANGED <<envelope, started, parser, streamer, chat, script, pushed, accepted,
                       cut, lastTick, finishCodes, parserVars, sessionVars, commandVars>>

\* streamer.start() has returned a message ts (spawn() awaits it before the
\* session is registered, and only a registered session is finalised)
StartSettled == envelope \/ streamer.currentTs # 0

\* finish(exitCode)
RouterFinish ==
  \E exitCode \in ExitCodes, threw \in BOOLEAN :
    /\ started /\ StartSettled
    /\ Len(finishCodes) < MaxFinish
    /\ threw => envelope
    /\ finishCodes' = Append(finishCodes,
                              [code |-> exitCode, at |-> Len(pushed), threw |-> threw])
    /\ IF envelope
       THEN \* parser.flush() returns, or throws before it has done anything
            /\ parser' = IF threw THEN parser ELSE ParserFlush(parser)
            /\ calls' = calls \o EnvelopeCalls(parser, parser')
            /\ streamer' = streamer
            /\ logWriter' = FinishLog(logWriter, threw, exitCode)
       ELSE /\ parser' = parser
            /\ streamer' = [streamer EXCEPT
                 !.stopped = TRUE,
                 !.flushTimer = IF @ = "armed" THEN "cleared" ELSE @]
            /\ calls' = Append(calls, Call("update", streamer.currentTs,
                                           Final(trim(streamer.buffer), exitCode), "finish", exitCode))
            /\ logWriter' = logWriter
    /\ UNCHANGED <<envelope, started, chat, script, pushed, accepted, cut, lastTick, parserVars, sessionVars, commandVars>>

RouterNext ==
  \/ RouterStart \/ RouterPush \/ RouterActivation \/ RouterUnclosedTimeout
  \/ StreamerTick \/ CallResolves \/ CallRejects \/ RouterFinish

SpecRouter == RouterInit /\ [][RouterNext]_vars

(***************************************************************************)
(* cli/session.ts: the SessionManager, its subprocesses and its timers     *)
(***************************************************************************)
MaxSpawns  == 2   \* spawn() calls in one run
MaxRare    == 1   \* rare events in one run: repeated exit firings, timeouts, removed
                  \* bindings, rejected completion notices, failed spawns

Procs == 1..MaxSpawns

Causes == {"exit", "timeout"}

NoHandle ==
  [ pc |-> "idle",        \* idle | spawning | starting | notifying | done | failed | aborted
    thread |-> 0,         \* options.threadTs
    cont |-> FALSE,       \* options.isContinuation
    alive |-> FALSE,      \* the subprocess runs
    killed |-> FALSE,     \* process.kill() was called and the subprocess still runs
    exited |-> FALSE,     \* the onExit closure's guard
    firings |-> 0,        \* exit callback firings so far
    timer |-> "null",     \* timeoutHandle: null | armed | fired | cleared
    messageTs |-> 0,      \* 0: undefined, 1: the ts of the start notification
    failures |-> 0 ]      \* "Failed to start" messages posted

NoEffects ==
  [calls |-> 0, found |-> 0, finishes |-> 0, notices |-> 0, rejected |-> 0, deletes |-> 0]

SessionInit ==
  /\ cfg \in [envelope : BOOLEAN, timeout : BOOLEAN, sessionFlag : BOOLEAN]
  /\ handles = [p \in Procs |-> NoHandle]
  /\ sessions = [t \in Procs |-> 0]
  /\ sessionObj = [p \in Procs |-> [status |-> "none", exitCode |-> <<>>, notice |-> "none"]]
  /\ finalising = {}
  /\ threadBindings = {}
  /\ effects = [p \in Procs |-> [c \in Causes |-> NoEffects]]
  /\ parser = NoParser
  /\ HarnessIdle
  /\ RouterIdle
  /\ CommandsIdle

\* the spawn() call that comes next
NextProc(p) == handles[p].pc = "idle" /\ \A q \in 1..(p - 1) : handles[q].pc # "idle"

Bump(p, cause, field) == [effects EXCEPT ![p][cause][field] = @ + 1]

RECURSIVE Duplicates(_)
\* exit callback firings after the first, over the handles in P
Duplicates(P) ==
  IF P = {} THEN 0
  ELSE LET p == CHOOSE q \in P : TRUE
       IN  Max(handles[p].firings - 1, 0) + Duplicates(P \ {p})

\* threads whose binding was removed
Closed(tb) ==
  {t \in Procs : cfg.sessionFlag /\ handles[t].pc = "done" /\ ~handles[t].cont /\ t \notin tb}

\* the rare events so far: repeated exit firings, timeouts, removed bindings, rejected
\* completion notices, failed spawns
RareOf(tb) ==
  Duplicates(Procs) + Cardinality({q \in Procs : handles[q].timer = "fired"})
    + Cardinality({q \in Procs : handles[q].pc \in {"failed", "aborted"}})
    + Cardinality(Closed(tb))
    + Cardinality({q \in Procs : effects[q]["exit"].rejected > 0})
    + Cardinality({q \in Procs : effects[q]["timeout"].rejected > 0})

Rare == RareOf(threadBindings)

\* CommandRouter.handleCli: a command in a new thread, keyed by the message's ts
HandleCli ==
  \E p \in Procs :
    /\ NextProc(p)
    /\ handles' = [handles EXCEPT ![p].pc = "spawning", ![p].thread = p]
    /\ UNCHANGED <<cfg, sessions, sessionObj, finalising, threadBindings, effects,
                   parser, parserVars, routerVars, commandVars>>

\* CommandRouter.handleMessage, step 3: a reply in a bound thread spawns a continuation
HandleReply ==
  \E p \in Procs, t \in threadBindings :
    /\ NextProc(p)
    /\ handles' = [handles EXCEPT ![p].pc = "spawning", ![p].thread = t, ![p].cont = TRUE]
    /\ UNCHANGED <<cfg, sessions, sessionObj, finalising, threadBindings, effects,
                   parser, parserVars, routerVars, commandVars>>

\* spawn(), from the timeout timer to the thread binding
RegisterSession(h, p, msgTs) ==
  /\ handles' = [h EXCEPT ![p].pc = "done", ![p].messageTs = msgTs,
                          ![p].timer = IF cfg.timeout THEN "armed" ELSE "null"]
  /\ sessions' = [sessions EXCEPT ![h[p].thread] = p]
  /\ sessionObj' = [sessionObj EXCEPT ![p] =
                      [status |-> "running", exitCode |-> <<>>, notice |-> "none"]]
  /\ threadBindings' = IF cfg.sessionFlag /\ ~h[p].cont
                       THEN threadBindings \cup {h[p].thread} ELSE threadBindings
  /\ UNCHANGED <<finalising, effects>>

\* spawn(), after router.start(): the start notification, skipped for continuations
AfterStart(h, p) ==
  IF h[p].cont
  THEN RegisterSession(h, p, 0)
  ELSE /\ handles' = [h EXCEPT ![p].pc = "notifying"]
       /\ UNCHANGED <<sessions, sessionObj, finalising, threadBindings, effects>>

\* spawnProcess() resolves: listeners are attached and router.start() is called,
\* which awaits the placeholder post in full-output mode only
SpawnResolves ==
  \E p \in Procs :
    /\ handles[p].pc = "spawning"
    /\ LET h == [handles EXCEPT ![p].alive = TRUE]
       IN  IF cfg.envelope
           THEN AfterStart(h, p)
           ELSE /\ handles' = [h EXCEPT ![p].pc = "starting"]
                /\ UNCHANGED <<sessions, sessionObj, finalising, threadBindings, effects>>
    /\ UNCHANGED <<cfg, parser, parserVars, routerVars, commandVars>>

\* spawnProcess() rejects and the catch block goes on to register the session
SpawnRejectsNoReturn ==
  \E p \in Procs :
    /\ handles[p].pc = "spawning"
    /\ Rare < MaxRare
    /\ handles' = [handles EXCEPT ![p].pc = "failed", ![p].failures = @ + 1]
    /\ sessions' = [sessions EXCEPT ![handles[p].thread] = p]
    /\ UNCHANGED <<cfg, sessionObj, finalising, threadBindings, effects,
                   parser, parserVars, routerVars, commandVars>>

\* spawnProcess() rejects: the failure is posted and spawn() returns
SpawnRejects ==
  \E p \in Procs :
    /\ handles[p].pc = "spawning"
    /\ Rare < MaxRare
    /\ handles' = [handles EXCEPT ![p].pc = "failed", ![p].failures = @ + 1]
    /\ UNCHANGED <<cfg, sessions, sessionObj, finalising, threadBindings, effects,
                   parser, parserVars, routerVars, commandVars>>

\* router.start() resolves
StartResolves ==
  \E p \in Procs :
    /\ handles[p].pc = "starting"
    /\ AfterStart(handles, p)
    /\ UNCHANGED <<cfg, parser, parserVars, routerVars, commandVars>>

\* the start notification is posted
NoticePosted ==
  \E p \in Procs :
    /\ handles[p].pc = "notifying"
    /\ RegisterSession(handles, p, 1)
    /\ UNCHANGED <<cfg, parser, parserVars, routerVars, commandVars>>

\* router.start() or the start notification rejects: spawn() rejects
SpawnAborts ==
  \E p \in Procs :
    /\ handles[p].pc \in {"starting", "notifying"}
    /\ Rare < MaxRare
    /\ handles' = [handles EXCEPT ![p].pc = "aborted"]
    /\ UNCHANGED <<cfg, sessions, sessionObj, finalising, threadBindings, effects,
                   parser, parserVars, routerVars, commandVars>>

\* finalise(): the label of the completion notice
Label(exitCode) ==
  IF exitCode = -1 THEN "timed out" ELSE IF exitCode = 0 THEN "complete" ELSE "ended"

\* finalise(threadTs, exitCode), up to its first await on the reporter; p and
\* cause name the callback that calls it, h is handles as the callback left it
Finalise(h, p, cause, exitCode) ==
  LET t == h[p].thread
      o == sessions[t]
      e1 == Bump(p, cause, "calls")
  IN  IF o = 0
      THEN /\ handles' = h
           /\ effects' = e1
           /\ UNCHANGED <<sessions, sessionObj, finalising>>
      ELSE LET task == [by |-> p, cause |-> cause, o |-> o, thread |-> t, pc |-> "finish",
                        label |-> Label(exitCode)]
               e2 == [e1 EXCEPT ![p][cause].found = @ + 1, ![p][cause].finishes = @ + 1]
           IN  /\ handles' = [h EXCEPT ![o].timer = IF @ = "armed" THEN "cleared" ELSE @]
               /\ sessionObj' = [sessionObj EXCEPT
                    ![o].status = IF exitCode = -1 THEN "timed_out" ELSE "exited",
                    ![o].exitCode = <<exitCode>>]
               /\ IF ~cfg.envelope
                  THEN \* router.finish() awaits the streamer's final update
                       /\ finalising' = finalising \cup {task}
                       /\ effects' = e2
                       /\ sessions' = sessions
                  ELSE IF h[o].messageTs # 0
                  THEN /\ finalising' = finalising \cup {[task EXCEPT !.pc = "notice"]}
                       /\ effects' = [e2 EXCEPT ![p][cause].notices = @ + 1]
                       /\ sessions' = sessions
                  ELSE /\ finalising' = finalising
                       /\ effects' = [e2 EXCEPT ![p][cause].deletes = @ + 1]
                       /\ sessions' = [sessions EXCEPT ![t] = 0]

\* the exit listener without its guard
onExitUnguarded(h, p, exitCode) ==
  Finalise([h EXCEPT ![p].exited = TRUE], p, "exit", exitCode)

\* the listener spawn() passes to handle.onExit
onExit(h, p, exitCode) ==
  IF h[p].exited
  THEN /\ handles' = h
       /\ UNCHANGED <<sessions, sessionObj, finalising, effects>>
  ELSE Finalise([h EXCEPT ![p].exited = TRUE], p, "exit", exitCode)

\* process.kill()
Kill(h, p) == [h EXCEPT ![p].killed = h[p].alive]

\* the exit code of each subprocess: the first fails, the second succeeds, ...
ExitCodeOf(p) == p % 2

\* the subprocess exits and the handle fires the exit callback
ProcessExit ==
  \E p \in Procs :
    /\ handles[p].alive
    /\ onExit([handles EXCEPT ![p].alive = FALSE, ![p].killed = FALSE, ![p].firings = 1],
              p, ExitCodeOf(p))
    /\ UNCHANGED <<cfg, threadBindings, parser, parserVars, routerVars, commandVars>>

\* the handle fires the exit callback once more
DuplicateExit ==
  \E p \in Procs :
    /\ ~handles[p].alive
    /\ handles[p].firings >= 1
    /\ Rare < MaxRare
    /\ onExit([handles EXCEPT ![p].firings = @ + 1], p, ExitCodeOf(p))
    /\ UNCHANGED <<cfg, threadBindings, parser, parserVars, routerVars, commandVars>>

\* the session timeout fires: handle.kill(); void this.finalise(threadTs, -1)
SessionTimeout ==
  \E p \in Procs :
    /\ handles[p].timer = "armed"
    /\ Rare < MaxRare
    /\ Finalise([Kill(handles, p) EXCEPT ![p].timer = "fired"], p, "timeout", -1)
    /\ UNCHANGED <<cfg, threadBindings, parser, parserVars, routerVars, commandVars>>

\* router.finish() returns (the final update resolved, or rejected and was
\* caught): finalise() goes on to the completion notice or to the removal
FinishReturns ==
  \E task \in finalising :
    /\ task.pc = "finish"
    /\ IF handles[task.o].messageTs # 0
       THEN /\ finalising' = (finalising \ {task}) \cup {[task EXCEPT !.pc = "notice"]}
            /\ effects' = Bump(task.by, task.cause, "notices")
            /\ sessions' = sessions
       ELSE /\ finalising' = finalising \ {task}
            /\ effects' = Bump(task.by, task.cause, "deletes")
            /\ sessions' = [sessions EXCEPT ![task.thread] = 0]
    /\ UNCHANGED <<cfg, handles, sessionObj, threadBindings, parser, parserVars, routerVars, commandVars>>

\* what stop() can be given: the key of a thread, or the id of a session
ThreadKey(t) == <<"ts", t>>
SessionIdOf(p) == <<"id", p>>
Identifiers == {ThreadKey(t) : t \in Procs} \cup {SessionIdOf(p) : p \in Procs}

\* findSession that looks the identifier up among the thread keys only
findSessionDirect(identifier) ==
  IF identifier[1] = "ts" THEN sessions[identifier[2]] ELSE 0

\* findSession(identifier): the session registered under the identifier as a thread
\* key, else the first session of the map whose id is the identifier; 0 if none
findSession(identifier) ==
  IF identifier[1] = "ts" /\ sessions[identifier[2]] # 0
  THEN sessions[identifier[2]]
  ELSE IF \E t \in Procs : sessions[t] # 0 /\ SessionIdOf(sessions[t]) = identifier
       THEN identifier[2]
       ELSE 0

\* stop() that kills the process of every session in the map
StopAll(h, identifier) ==
  [p \in Procs |-> IF \E u \in Procs : sessions[u] = p THEN Kill(h, p)[p] ELSE h[p]]

\* stop(identifier): the session is looked up and its process killed
Stop(h, identifier) ==
  LET p == findSession(identifier) IN IF p = 0 THEN h ELSE Kill(h, p)

\* the /stop control command, given a thread key (given the id of a session it
\* stops what the key of that session's thread stops)
PostStop ==
  \E t \in Procs :
    /\ handles' = Stop(handles, ThreadKey(t))
    /\ handles' # handles
    /\ UNCHANGED <<cfg, sessions, sessionObj, finalising, threadBindings, effects,
                   parser, parserVars, routerVars, commandVars>>

\* the Close Session button of a start notification: stop() and removeThreadBinding()
CloseSession ==
  \E t \in Procs :
    /\ \E p \in Procs : handles[p].thread = t /\ handles[p].messageTs # 0
    /\ handles' = Stop(handles, ThreadKey(t))
    /\ threadBindings' = threadBindings \ {t}
    /\ handles' # handles \/ threadBindings' # threadBindings
    /\ RareOf(threadBindings') <= MaxRare
    /\ UNCHANGED <<cfg, sessions, sessionObj, finalising, effects,
                   parser, parserVars, routerVars, commandVars>>

\* the update of the start message resolves and the message shows the label, or it is
\* rejected and the rejection caught
NoticeSettles(task, ok) ==
  IF ok
  THEN /\ sessionObj' = [sessionObj EXCEPT ![task.o].notice = task.label]
       /\ effects' = Bump(task.by, task.cause, "deletes")
  ELSE /\ Rare < MaxRare
       /\ sessionObj' = sessionObj
       /\ effects' = [Bump(task.by, task.cause, "deletes") EXCEPT
                        ![task.by][task.cause].rejected = @ + 1]

\* the completion notice's update settles and the binding is deleted with the session
NoticeReturnsUnbinds ==
  \E task \in finalising :
    /\ task.pc = "notice"
    /\ finalising' = finalising \ {task}
    /\ sessions' = [sessions EXCEPT ![task.thread] = 0]
    /\ threadBindings' = threadBindings \ {task.thread}
    /\ \E ok \in BOOLEAN : NoticeSettles(task, ok)
    /\ UNCHANGED <<cfg, handles, parser, parserVars, routerVars, commandVars>>

\* the completion notice's update settles (ok: it resolved and the start message shows
\* the label; otherwise it was rejected and the rejection caught):
\* this.sessions.delete(threadTs)
NoticeReturns ==
  \E task \in finalising :
    /\ task.pc = "notice"
    /\ finalising' = finalising \ {task}
    /\ sessions' = [sessions EXCEPT ![task.thread] = 0]
    /\ \E ok \in BOOLEAN : NoticeSettles(task, ok)
    /\ UNCHANGED <<cfg, handles, threadBindings, parser, parserVars, routerVars, commandVars>>

Next ==
  \/ HandleCli \/ HandleReply
  \/ SpawnResolves \/ SpawnRejects \/ StartResolves \/ NoticePosted \/ SpawnAborts
  \/ ProcessExit \/ DuplicateExit \/ SessionTimeout
  \/ PostStop \/ CloseSession
  \/ FinishReturns \/ NoticeReturns

Spec == SessionInit /\ [][Next]_vars

(***************************************************************************)
(* cli/session.ts: stop() and sendInput() called at any moment             *)
(***************************************************************************)
\* sendInput that writes to whatever session the map holds for the thread
sendInputAnyStatus(t) == sessions[t]

\* sendInput(threadTs, text): the session whose process is written to, 0 if none
sendInput(t) ==
  IF sessions[t] = 0 \/ sessionObj[sessions[t]].status # "running" THEN 0 ELSE sessions[t]

\* types.ts: SessionMode
SessionModes == {"one-shot", "interactive"}

\* what a reply or a command can be
InputTexts == {<<"a">>, <<"a", "b">>}

\* PtyHandle.write(data): what the pseudo-terminal receives
PtyHandleWrite(data) == data

\* SpawnHandle.write(data): what the child's stdin receives; spawnProcess() has
\* ended that stream before it resolved
SpawnHandleWrite(stdinEnded, data) == IF stdinEnded THEN <<>> ELSE data \o <<"LF">>

\* spawnProcess(binary, args, {mode}): the handle it resolves with
spawnProcess(mode) ==
  IF mode = "one-shot" THEN [kind |-> "spawn", stdinEnded |-> TRUE]
  ELSE [kind |-> "pty", stdinEnded |-> FALSE]

\* handle.write(data) for each data of writes, in order: what the stream receives
RECURSIVE Receives(_, _)
Receives(handle, writes) ==
  IF writes = <<>> THEN <<>>
  ELSE (IF handle.kind = "pty" THEN PtyHandleWrite(Head(writes))
        ELSE SpawnHandleWrite(handle.stdinEnded, Head(writes)))
       \o Receives(handle, Tail(writes))

\* a command configuration with a timeout and a session flag, in full-output mode
ControlInit == SessionInit /\ cfg = [envelope |-> FALSE, timeout |-> TRUE, sessionFlag |-> TRUE]

\* runner.stop(identifier) and what it returns
StopCall ==
  \E identifier \in Identifiers :
    /\ control = NoControl
    /\ handles' = Stop(handles, identifier)
    /\ control' = [NoControl EXCEPT !.op = "stop", !.arg = identifier,
                     !.found = findSession(identifier) # 0,
                     !.target = findSession(identifier)]
    /\ UNCHANGED <<cfg, sessions, sessionObj, finalising, threadBindings, effects,
                   routed, firstSpawn, parser, parserVars, routerVars>>

\* runner.sendInput(threadTs, text) and the process it writes to; the session
\* was spawned in either mode, on which nothing else here depends
SendInput ==
  \E t \in Procs :
    /\ control = NoControl
    /\ IF sendInput(t) = 0
       THEN control' = [NoControl EXCEPT !.op = "sendInput", !.arg = ThreadKey(t)]
       ELSE \E mode \in SessionModes, text \in InputTexts :
              LET writes == <<text \o <<"LF">>>>
              IN  control' = [op |-> "sendInput", arg |-> ThreadKey(t), found |-> TRUE,
                              target |-> sendInput(t), mode |-> mode, writes |-> writes,
                              received |-> Receives(spawnProcess(mode), writes)]
    /\ UNCHANGED <<sessionVars, routed, firstSpawn, parser, parserVars, routerVars>>

\* the prompt that asks the tool for envelopes (config.envelope.promptText)
PromptText == <<"p">>

\* spawn(): what the timer set for an interactive session writes when it fires
InitWrites(command) ==
  (IF cfg.envelope THEN <<PromptText \o <<"LF">>>> ELSE <<>>)
    \o (IF command # <<>> THEN <<command \o <<"LF">>>> ELSE <<>>)

\* the timer that spawn() set for an interactive session fires, initDelayMs
\* after spawn() went past the thread binding
InitDelayFires ==
  \E p \in Procs, command \in InputTexts \cup {<<>>} :
    /\ control = NoControl
    /\ handles[p].pc = "done"
    /\ control' = [NoControl EXCEPT !.op = "initDelay", !.arg = ThreadKey(handles[p].thread),
                     !.found = InitWrites(command) # <<>>, !.target = p,
                     !.mode = "interactive", !.writes = InitWrites(command),
                     !.received = Receives(spawnProcess("interactive"), InitWrites(command))]
    /\ UNCHANGED <<sessionVars, routed, firstSpawn, parser, parserVars, routerVars>>

\* sessions are spawned, exit, time out and are finalised, up to one observed
\* call of stop() or sendInput(): what a stop() leads to afterwards is what
\* PostStop leads to
ControlNext ==
  \/ /\ control = NoControl
     /\ \/ HandleCli \/ HandleReply \/ SpawnResolves \/ StartResolves \/ NoticePosted
        \/ PostStop
        \/ ProcessExit \/ SessionTimeout \/ FinishReturns \/ NoticeReturns
  \/ StopCall
  \/ SendInput

SpecControl == ControlInit /\ [][ControlNext]_vars

\* the same with the first write of an interactive session among the observed calls
WritesNext == ControlNext \/ InitDelayFires

SpecWrites == ControlInit /\ [][WritesNext]_vars


(***************************************************************************)
(* commands/router.ts: CommandRouter.handleMessage, with spawn() taken as  *)
(* one step that succeeds                                                  *)
(***************************************************************************)
MaxMessages == 3   \* messages handled in one run

Keys == 1..MaxMessages   \* message ts values, which are the thread keys

\* CommandConfig of the one CLI command configured: mode and session flags ("": not set)
CommandConfigs ==
  [ mode : {"one-shot", "interactive"},
    sessionFlag : {"", "-S"},
    sessionIdFlag : {"", "--session-id"},
    resumeFlag : {"", "--resume"},
    prefixAllowed : BOOLEAN ]   \* Authorizer.isPrefixAllowed for the command's prefix

\* what parseCommand and checkCommand make of a message text
Texts ==
  { [parsed |-> "none", args |-> "plain"], [parsed |-> "none", args |-> "blocked"],
    [parsed |-> "cli", args |-> "plain"], [parsed |-> "cli", args |-> "blocked"],
    [parsed |-> "cli", args |-> "empty"], [parsed |-> "control", args |-> "plain"] }

NoId == [uuid |-> FALSE, thread |-> 0]

\* `slack-${channelId}-${threadTs}`
SlackSessionId(threadTs) == [uuid |-> FALSE, thread |-> threadTs]

\* stringToUuid: a deterministic id of another format
stringToUuid(id) == [id EXCEPT !.uuid = TRUE]

NoArgs == [flag |-> "", id |-> NoId]

\* options.sessionId ?? (cmdConfig.sessionIdFlag ? stringToUuid(slackSessionId) : slackSessionId)
ResolveSessionId(c, opts) ==
  IF opts.sessionId # NoId THEN opts.sessionId
  ELSE IF c.sessionIdFlag # "" THEN stringToUuid(SlackSessionId(opts.threadTs))
  ELSE SlackSessionId(opts.threadTs)

\* spawn(): the session flag and id pushed onto spawnArgs
SessionArgs(c, opts) ==
  IF c.mode = "one-shot"
  THEN IF c.sessionFlag # "" THEN [flag |-> c.sessionFlag, id |-> ResolveSessionId(c, opts)]
       ELSE IF c.sessionIdFlag # ""
       THEN [flag |-> IF opts.isContinuation /\ c.resumeFlag # "" THEN c.resumeFlag
                      ELSE c.sessionIdFlag,
             id |-> ResolveSessionId(c, opts)]
       ELSE NoArgs
  ELSE IF c.sessionIdFlag # ""
       THEN [flag |-> c.sessionIdFlag, id |-> stringToUuid(SlackSessionId(opts.threadTs))]
       ELSE NoArgs

NoBinding == [bound |-> FALSE, sessionId |-> NoId]

NoOutcome ==
  [ ts |-> 0, threadTs |-> 0, channelOk |-> TRUE, userOk |-> TRUE,
    text |-> [parsed |-> "none", args |-> "plain"],
    bound |-> FALSE, running |-> FALSE,
    did |-> "none",          \* none | deny | refuse | control | stdin | spawn
    spawns |-> 0, key |-> 0, isContinuation |-> FALSE, sessionId |-> NoId, args |-> NoArgs ]

CommandsInit ==
  /\ cfg \in CommandConfigs
  /\ sessions = [k \in Keys |-> "none"]
  /\ threadBindings = [k \in Keys |-> NoBinding]
  /\ firstSpawn = [k \in Keys |-> NoArgs]
  /\ routed = NoOutcome
  /\ control = NoControl
  /\ handles = <<>> /\ sessionObj = <<>> /\ finalising = {} /\ effects = <<>>
  /\ parser = NoParser
  /\ HarnessIdle
  /\ RouterIdle

\* handleMessage that looks for a running session before it looks for a binding
RouteStdinFirst(m) ==
  IF ~m.channelOk THEN "none"
  ELSE IF ~m.userOk THEN "deny"
  ELSE IF m.threadTs # 0 /\ sessions[m.threadTs] = "running" THEN "stdin"
  ELSE IF m.threadTs # 0 /\ threadBindings[m.threadTs].bound THEN "continue"
  ELSE IF m.text.parsed = "none" THEN "none"
  ELSE IF m.text.parsed = "control" THEN "control"
  ELSE IF ~cfg.prefixAllowed \/ m.text.args # "plain" THEN "refuse"
  ELSE "spawn"

\* handleMessage and handleCli: which way a message goes
Route(m) ==
  IF ~m.channelOk THEN "none"
  ELSE IF ~m.userOk THEN "deny"
  ELSE IF m.threadTs # 0 /\ threadBindings[m.threadTs].bound THEN "continue"
  ELSE IF m.threadTs # 0 /\ sessions[m.threadTs] = "running" THEN "stdin"
  ELSE IF m.text.parsed = "none" THEN "none"
  ELSE IF m.text.parsed = "control" THEN "control"
  ELSE IF ~cfg.prefixAllowed \/ m.text.args # "plain" THEN "refuse"
  ELSE "spawn"

\* the options handleMessage and handleCli pass to spawn()
SpawnOptions(m, way) ==
  IF way = "continue"
  THEN [threadTs |-> m.threadTs, isContinuation |-> TRUE,
        sessionId |-> threadBindings[m.threadTs].sessionId]
  ELSE [threadTs |-> m.ts, isContinuation |-> FALSE, sessionId |-> NoId]

\* a message arrives and handleMessage runs
HandleMessage ==
  \E threadTs \in 0..routed.ts, channelOk \in BOOLEAN, userOk \in BOOLEAN, text \in Texts :
    LET m == [ts |-> routed.ts + 1, threadTs |-> threadTs, channelOk |-> channelOk,
              userOk |-> userOk, text |-> text]
        way == Route(m)
        opts == SpawnOptions(m, way)
        spawning == way \in {"continue", "spawn"}
        key == opts.threadTs
    IN  /\ routed.ts < MaxMessages
        /\ routed' =
             [ ts |-> m.ts, threadTs |-> threadTs, channelOk |-> channelOk, userOk |-> userOk,
               text |-> text,
               bound |-> threadTs # 0 /\ threadBindings[threadTs].bound,
               running |-> threadTs # 0 /\ sessions[threadTs] = "running",
               did |-> IF spawning THEN "spawn" ELSE way,
               spawns |-> IF spawning THEN 1 ELSE 0,
               key |-> IF spawning THEN key ELSE 0,
               isContinuation |-> spawning /\ opts.isContinuation,
               sessionId |-> IF spawning THEN opts.sessionId ELSE NoId,
               args |-> IF spawning THEN SessionArgs(cfg, opts) ELSE NoArgs ]
        /\ sessions' = IF spawning THEN [sessions EXCEPT ![key] = "running"] ELSE sessions
        /\ threadBindings' =
             IF spawning /\ (cfg.sessionFlag # "" \/ cfg.sessionIdFlag # "") /\ ~opts.isContinuation
             THEN [threadBindings EXCEPT ![key] =
                     [bound |-> TRUE, sessionId |-> ResolveSessionId(cfg, opts)]]
             ELSE threadBindings
        /\ firstSpawn' = IF spawning /\ ~opts.isContinuation
                         THEN [firstSpawn EXCEPT ![key] = SessionArgs(cfg, opts)]
                         ELSE firstSpawn
        /\ UNCHANGED <<cfg, handles, sessionObj, finalising, effects, control,
                       parser, parserVars, routerVars>>

\* a session ends: finalise() removes it from the map
SessionEnds ==
  \E k \in Keys :
    /\ sessions[k] = "running"
    /\ sessions' = [sessions EXCEPT ![k] = "none"]
    /\ UNCHANGED <<cfg, handles, sessionObj, finalising, threadBindings, effects,
                   parser, parserVars, routerVars, commandVars>>

CommandsNext == HandleMessage \/ SessionEnds

SpecCommands == CommandsInit /\ [][CommandsNext]_vars
\* C1: chunk-boundary independence: chunks pushed after activation, with no
\* timer firing and no flush in between, have produced the envelopes that the
\* same text pushed as one chunk produces.
C1_ChunkIndependence ==
  (timeouts = 0 /\ flushes = 0) => parser.out = ParserPush(ActiveParser, fed).out

\* the parser handles what follows exactly as the freshly constructed, activated
\* parser `shadow` that was given the same chunks
SameAsFresh ==
  /\ parser.out = base \o shadow.out
  /\ parser.state = shadow.state
  /\ parser.scanBuffer = shadow.scanBuffer
  /\ parser.captureBuffer = shadow.captureBuffer
  /\ parser.state = "capturing" => parser.currentType = shadow.currentType

IncompleteOf(h) == [type |-> h.type, text |-> trim(stripAnsi(h.cap)), incomplete |-> TRUE]

\* C7 as stated: when the unclosed-timeout fires, exactly one envelope with
\* incomplete = TRUE is emitted for the captured content, the parser is back in
\* SCANNING and handles later text as a fresh parser does.
C7_TimeoutEmitsOne ==
  hist.event = "timeout" =>
    /\ base = Append(hist.prev, IncompleteOf(hist))
    /\ SameAsFresh

\* C7 amended: when the unclosed-timeout fires, one envelope with incomplete =
\* TRUE is emitted if the trimmed, stripped capture is non-empty and none
\* otherwise; the parser is back in SCANNING and handles later text as a fresh
\* parser does.
C7_TimeoutRecovery ==
  hist.event = "timeout" =>
    /\ base = IF IncompleteOf(hist).text # <<>>
              THEN Append(hist.prev, IncompleteOf(hist)) ELSE hist.prev
    /\ SameAsFresh

\* an envelope was left open with content, the timeout fired, and a later
\* well-formed envelope was emitted
C7_Witness ==
  /\ hist.event = "timeout"
  /\ Len(base) = Len(hist.prev) + 1
  /\ Len(shadow.out) > 0
  /\ parser.state = "scanning"

\* C8: activation gating: as long as the activation delay has not elapsed the
\* parser has emitted nothing and has retained nothing of the text pushed to it.
C8_ActivationGating ==
  ~parser.activated =>
    /\ parser.out = <<>>
    /\ parser.scanBuffer = <<>> /\ parser.captureBuffer = <<>>
    /\ parser.state = "scanning" /\ parser.unclosedTimer = "null"

\* a whole well-formed envelope was pushed before activation
C8_Witness ==
  ~parser.activated /\ rest = <<>> /\ scen.kind = "round" /\ flushes = 0

\* C9: typed round trip: an open marker with a type tag of the closed set, a
\* text and the close marker, pushed after activation, yield exactly one
\* envelope with that type, the trimmed and stripped text and incomplete = FALSE.
C9_TypedRoundTrip ==
  (scen.kind = "round" /\ fed = scen.text) =>
    parser.out = << [ type |-> [k \in 1..Len(scen.type) |-> LowerAscii(scen.type[k])],
                      text |-> trim(stripAnsi(scen.body)),
                      incomplete |-> FALSE ] >>

(***************************************************************************)
(* The session log (SpecRouter)                                            *)
(***************************************************************************)
\* C6: the log is the start marker, then every chunk pushed while the log was
\* open (all those pushed before finish() was called among them), verbatim,
\* once each and in push order, then, once finish() has closed the log, one
\* end marker that carries an exit code passed to finish().
C6_LogFaithful ==
  started =>
    LET f      == logWriter.file
        closed == logWriter.stream = "null"
        n      == Len(f)
        body   == IF closed THEN SubSeq(f, 2, n - 1) ELSE SubSeq(f, 2, n)
    IN  /\ n >= 1 /\ f[1] = LogEntry("start", <<>>, 0)
        /\ \E k \in 0..Len(pushed) :
             /\ body = [i \in 1..k |-> LogEntry("data", pushed[i], 0)]
             /\ finishCodes # <<>> => k >= finishCodes[1].at
             /\ ~closed => k = Len(pushed)
        /\ closed =>
             /\ n >= 2 /\ f[n].kind = "end"
             /\ \E j \in 1..Len(finishCodes) : f[n].code = finishCodes[j].code
        /\ closed <=> (finishCodes # <<>> /\ (envelope \/ Len(finishCodes) > Cardinality({i \in 1..Len(calls) : calls[i].k = "finish"})))

\* a closed log of a full-output session that recorded three chunks, one of
\* them with a control sequence in it
C6_Witness ==
  /\ started /\ ~envelope
  /\ logWriter.stream = "null"
  /\ Len(logWriter.file) = 5
  /\ \E i \in 1..Len(pushed) : stripAnsi(pushed[i]) # pushed[i]

(***************************************************************************)
(* Splitting in the streamer (SpecRouter)                                  *)
(***************************************************************************)
RECURSIVE ChatText(_, _)
\* the output on display in messages 1..n other than the current one
ChatText(n, current) ==
  IF n = 0 THEN <<>>
  ELSE ChatText(n - 1, current)
         \o (IF n # current /\ chat[n].kind = "block" THEN chat[n].text ELSE <<>>)

\* C10: a tick on a buffer longer than the ceiling sends exactly the first
\* ceiling-sized slice to the current message and keeps the remainder, and once
\* the tick's reporting calls have settled every slice cut so far is on display,
\* in order, in the messages before the current one, which is a new message.
C10_SplitConservation ==
  /\ lastTick.kind = "split" =>
       /\ lastTick.sent = Slice(lastTick.before, 0, MaxChars)
       /\ lastTick.sent \o lastTick.after = lastTick.before
  /\ ~streamer.stopped => cut \o streamer.buffer = accepted
  /\ (~envelope /\ calls = <<>> /\ ~streamer.stopped /\ streamer.currentTs # 0) =>
       ChatText(Len(chat), streamer.currentTs) = cut

(***************************************************************************)
(* Finalisation in the SessionManager (Spec)                               *)
(***************************************************************************)
Pending(p, cause) == \E task \in finalising : task.by = p /\ task.cause = cause

C3_OneFinalisation ==
  \A p \in Procs :
    LET x == effects[p]["exit"]
        y == effects[p]["timeout"]
    IN  /\ x.finishes + y.finishes <= 1
        /\ x.notices + y.notices <= 1
        /\ x.deletes + y.deletes <= 1

\* C4: no two running subprocesses belong to the same thread key.
C4_OneLivePerThread ==
  \A t \in Procs : Cardinality({p \in Procs : handles[p].alive /\ handles[p].thread = t}) <= 1

\* C5: once spawn() and every finalise() have returned and no timeout is
\* pending, the map holds no running entry for a process that has exited.
C5_ExitedSessionRemoved ==
  \A p \in Procs :
    ( /\ handles[p].pc = "done" /\ handles[p].firings >= 1
      /\ finalising = {} /\ handles[p].timer # "armed" )
    => ~(sessions[handles[p].thread] = p /\ sessionObj[p].status = "running")

(***************************************************************************)
(* Failed reporter calls of a streamer tick (SpecRouter)                   *)
(***************************************************************************)
\* call i of calls is rejected in this step
Rejected(i) == calls' = Remove(calls, i) /\ chat' = chat /\ streamer' = streamer

\* C11: when the update a tick sent is rejected, the text the tick sent is
\* still in the buffer afterwards.
C11_FailedTickKeepsOutput ==
  [][\A i \in 1..Len(calls) :
       (calls[i].k \in {"splitUpdate", "inplace"} /\ Rejected(i) /\ ~streamer.stopped)
         => indexOf(streamer'.buffer, calls[i].content.text) # -1]_vars

\* the command declares one reusable session flag / a create flag and a resume flag
ReusableFlag == cfg.sessionFlag # "" /\ cfg.sessionIdFlag = ""
CreateResumePair == cfg.sessionFlag = "" /\ cfg.sessionIdFlag # "" /\ cfg.resumeFlag # ""

\* C12: a continuation spawn injects the id the first spawn on its thread injected, with the
\* reusable flag both times, or with the create flag first and the resume flag afterwards.
C12_ContinuationIdentity ==
  (routed.did = "spawn" /\ routed.isContinuation) =>
    LET first == firstSpawn[routed.key]
    IN  /\ ReusableFlag =>
             /\ first.flag = cfg.sessionFlag /\ first.id # NoId
             /\ routed.args = first
        /\ CreateResumePair =>
             /\ first.flag = cfg.sessionIdFlag /\ first.id # NoId
             /\ routed.args = [flag |-> cfg.resumeFlag, id |-> first.id]

\* C17: an authorised message on a thread that has a binding and no running session makes
\* exactly one spawn, a continuation with the bound id; only a message on a thread without
\* a binding is written to stdin.
C17_ContinuationRouting ==
  /\ (routed.channelOk /\ routed.userOk /\ routed.bound /\ ~routed.running) =>
       /\ routed.did = "spawn" /\ routed.spawns = 1
       /\ routed.key = routed.threadTs
       /\ routed.isContinuation
       /\ routed.sessionId = threadBindings[routed.threadTs].sessionId
       /\ routed.sessionId # NoId
  /\ routed.did = "stdin" => ~routed.bound

C17_Witness ==
  routed.bound /\ ~routed.running /\ routed.did = "spawn" /\ routed.isContinuation

\* C19: a message that leads to a spawn or to a stdin write has passed the channel check, the
\* user check, the prefix allow-list and the dangerous-command blocklist.
C19_ChecksBeforeSpawn ==
  routed.did \in {"spawn", "stdin"} =>
    /\ routed.channelOk /\ routed.userOk
    /\ cfg.prefixAllowed
    /\ routed.text.args # "blocked"

\* C13: the step in which the subprocess cannot be started posts one failure message and
\* changes neither the session map nor the bindings; the failed spawn() has no session, no
\* binding of its own, no timer and no subprocess, and does nothing afterwards.
C13_SpawnFailureConfined ==
  [][\A p \in Procs :
       /\ (handles[p].pc = "spawning" /\ handles'[p].pc = "failed") =>
            /\ handles'[p].failures = handles[p].failures + 1
            /\ sessions' = sessions /\ threadBindings' = threadBindings
       /\ handles'[p].pc = "failed" =>
            /\ handles'[p].failures = 1
            /\ \A t \in Procs : sessions'[t] # p
            /\ sessionObj'[p].status = "none"
            /\ ~handles'[p].cont => handles'[p].thread \notin threadBindings'
            /\ handles'[p].timer = "null"
            /\ ~handles'[p].alive /\ handles'[p].firings = 0
       /\ handles[p].pc = "failed" => handles'[p] = handles[p]]_vars

C13_Witness ==
  \E p, q \in Procs :
    /\ handles[p].pc = "failed" /\ handles[p].cont
    /\ handles[q].pc = "done" /\ handles[q].thread = handles[p].thread

\* C15: a spawn() whose placeholder post or start notification was rejected has still
\* registered its session, with the timeout armed where one is configured, and the exit of
\* its subprocess finalises that session.
C15_ReporterFailureContained ==
  \A p \in Procs :
    handles[p].pc = "aborted" =>
      /\ handles[p].alive =>
           /\ sessions[handles[p].thread] = p
           /\ cfg.timeout => handles[p].timer = "armed"
      /\ handles[p].firings > 0 => effects[p]["exit"].finishes > 0

\* C16: no step of a finalisation changes the thread bindings, and a binding disappears only
\* in a step that is no part of a finalisation and removes that one binding.
C16_BindingsOutliveSessions ==
  [][/\ (effects' # effects \/ finalising' # finalising) => threadBindings' = threadBindings
     /\ ~(threadBindings \subseteq threadBindings') =>
          /\ \E t \in threadBindings : threadBindings' = threadBindings \ {t}
          /\ UNCHANGED <<sessions, sessionObj, finalising, effects>>]_vars

C16_Witness ==
  \E p, q \in Procs :
    /\ handles[p].thread \in threadBindings /\ sessions[handles[p].thread] = 0
    /\ effects[p]["exit"].deletes > 0
    /\ handles[q].thread \notin threadBindings /\ handles[q].pc = "done" /\ ~handles[q].cont

\* C14: the step in which finish() gets past a parser flush, whether the flush returned or
\* threw, and the step in which the streamer's final update settles, whether it resolved or
\* was rejected, leave the log closed with an end marker.
C14_FinishIsolated ==
  [][LET flushed == envelope /\ Len(finishCodes') = Len(finishCodes) + 1
         settled == \E i \in 1..Len(calls) : calls[i].k = "finish" /\ calls' = Remove(calls, i)
     IN  (flushed \/ settled) =>
            /\ logWriter'.stream = "null"
            /\ logWriter'.file[Len(logWriter'.file)].kind = "end"]_vars

C14_Witness ==
  /\ Len(finishCodes) = 1 /\ finishCodes[1].threw
  /\ parser.state = "capturing"
  /\ logWriter.stream = "null"

\* the completion notice to expect on the start message of session o
NoticeOf(o) ==
  IF handles[o].timer = "fired" THEN "timed out" ELSE Label(ExitCodeOf(o))

\* C18: once no notice update of a session is outstanding, the notice its start message
\* shows is the timed-out notice if its timeout fired and the notice of its exit code if not.
C18_NoticeReflectsCause ==
  \A o \in Procs :
    (sessionObj[o].notice # "none" /\ \A task \in finalising : task.o # o) =>
      sessionObj[o].notice = NoticeOf(o)

\* the step leaves what the session manager holds for thread key u as it was: the map
\* entry, the binding, and the subprocesses, Session objects and finalisations of the
\* spawns on u
ThreadState(u) ==
  /\ sessions'[u] = sessions[u]
  /\ (u \in threadBindings') = (u \in threadBindings)
  /\ \A p \in Procs :
       (handles[p].thread = u \/ handles'[p].thread = u) =>
         /\ handles'[p] = handles[p]
         /\ sessionObj'[p] = sessionObj[p]
         /\ effects'[p] = effects[p]
  /\ \A task \in finalising \cup finalising' :
       task.thread = u => (task \in finalising /\ task \in finalising')

IsPrefix(s, t) == Len(s) <= Len(t) /\ s = SubSeq(t, 1, Len(s))

Complete(t, body) ==
  [type |-> [k \in 1..Len(t) |-> LowerAscii(t[k])], text |-> trim(stripAnsi(body)),
   incomplete |-> FALSE]

\* the envelopes of a scenario's text, in the order of their markers
Expected(sc) ==
  IF sc.kind = "multi" THEN <<Complete(sc.type, sc.body), Complete(ErrorTag, <<"b">>)>>
  ELSE <<Complete(sc.type, sc.body)>>

\* the text a scenario leaves behind its last close marker
Trailing(sc) == IF sc.kind = "multi" THEN MarkerStart ELSE World

\* C25: of a text that holds envelopes and trailing text, pushed in any chunks after
\* activation, the parser emits the envelopes one by one in the order of their markers and
\* nothing else; when the text is all pushed each envelope has been emitted, the parser is
\* SCANNING and the text trailing the last close marker is in the scan buffer.
C25_RescanAfterClose ==
  (scen.kind \in {"multi", "feed"} /\ parser.activated) =>
    /\ IsPrefix(parser.out, Expected(scen))
    /\ fed = scen.text =>
         /\ parser.out = Expected(scen)
         /\ parser.state = "scanning"
         /\ parser.scanBuffer = Trailing(scen)

\* C26: a call of flush() leaves no timer of the parser armed, leaves the parser SCANNING
\* with both buffers empty, and emits one message flagged incomplete if the parser was
\* CAPTURING with non-blank content and nothing otherwise; a flush that follows a flush
\* emits nothing.
C26_TerminalFlush ==
  [][flushes' = flushes + 1 =>
       /\ parser'.activationTimer # "armed"
       /\ parser'.unclosedTimer # "armed" /\ parser'.orphanTimers = 0
       /\ parser'.state = "scanning"
       /\ parser'.scanBuffer = <<>> /\ parser'.captureBuffer = <<>>
       /\ parser'.out =
            IF parser.state = "capturing" /\ trim(parser.captureBuffer) # <<>>
            THEN Append(parser.out, [type |-> parser.currentType,
                                     text |-> trim(stripAnsi(parser.captureBuffer)),
                                     incomplete |-> TRUE])
            ELSE parser.out
       /\ (hist.event = "flush" /\ shadow.scanBuffer = <<>> /\ shadow.state = "scanning")
            => parser'.out = parser.out]_vars

\* a first flush has emitted an incomplete envelope and cancelled the armed unclosed timer,
\* and a second flush has emitted nothing
C26_Witness ==
  /\ flushes = 2 /\ hist.event = "flush"
  /\ base = hist.prev /\ base # <<>> /\ base[Len(base)].incomplete
  /\ parser.unclosedTimer = "stale"

\* C29: every message the parser emits is untyped or has a type of the closed set, which is
\* the lower-cased suffix of its open marker; an open marker without a suffix or with a
\* suffix outside the closed set, its text and the close marker, pushed after activation,
\* yield one untyped message.
C29_UntypedMarkers ==
  /\ \A i \in 1..Len(parser.out) :
       parser.out[i].type # <<>> =>
         /\ parser.out[i].type \in VALID_TYPES
         /\ \E t \in {scen.type, ErrorTag} :
              parser.out[i].type = [k \in 1..Len(t) |-> LowerAscii(t[k])]
  /\ (scen.kind = "untyped" /\ fed = scen.text) =>
       parser.out = << [type |-> <<>>, text |-> trim(stripAnsi(scen.body)),
                        incomplete |-> FALSE] >>

(***************************************************************************)
(* C27: streamer.finish(exitCode)                                          *)
(***************************************************************************)
\* a step that is a call of the streamer's finish(exitCode)
StreamerFinishes == ~envelope /\ Len(finishCodes') = Len(finishCodes) + 1

\* the reporter call with continuation k that settles in this step
Settles(k, c) ==
  /\ c.k = k
  /\ \E i \in 1..Len(calls) :
       /\ calls[i] = c
       /\ calls' = SubSeq(calls, 1, i - 1) \o SubSeq(calls, i + 1, Len(calls))

\* C27 as stated: finish(exitCode) cancels the flush timer and issues exactly
\* one final update on the current message, holding all buffered output and the
\* success indicator iff exitCode is 0; when the call is over, whatever the
\* reporter answered, the buffer is empty.
C27_FinishLeavesBufferEmpty ==
  [][ /\ StreamerFinishes =>
           /\ streamer'.flushTimer # "armed"
           /\ Len(calls') = Len(calls) + 1
      /\ \A c \in {calls[i] : i \in 1..Len(calls)} :
           Settles("finish", c) => streamer'.buffer = <<>> ]_vars

\* C27: finish(exitCode) cancels the flush timer, stops the streamer and issues
\* exactly one reporter call: an update of the current message with all the
\* buffered output (trimmed) and the success indicator iff exitCode is 0, the
\* failure indicator for every other code, the timeout sentinel included.  The
\* buffer is emptied when that update has succeeded; when the reporter rejects
\* it, finish() leaves the buffer as it was.
C27_FinishFinalUpdate ==
  [][ /\ StreamerFinishes =>
           LET exitCode == finishCodes'[Len(finishCodes')].code
               final    == calls'[Len(calls')]
           IN  /\ streamer'.flushTimer # "armed"
               /\ streamer'.stopped
               /\ Len(calls') = Len(calls) + 1
               /\ SubSeq(calls', 1, Len(calls)) = calls
               /\ final.op = "update" /\ final.ts = streamer.currentTs
               /\ final.content.kind = "final"
               /\ final.content.text = trim(streamer.buffer)
               /\ final.content.status = "success" <=> exitCode = 0
               /\ final.content.status \in {"success", "failure"}
               /\ streamer'.buffer = streamer.buffer
      /\ \A c \in {calls[i] : i \in 1..Len(calls)} :
           Settles("finish", c) =>
             \/ streamer'.buffer = <<>>
             \/ chat' = chat /\ streamer' = streamer ]_vars

\* a final update that carried output and the success indicator has succeeded
\* and the buffer is empty; a finish with the timeout sentinel has run too
C27_Witness ==
  /\ ~envelope /\ streamer.stopped /\ streamer.buffer = <<>> /\ calls = <<>>
  /\ streamer.flushTimer = "cleared"
  /\ \E n \in 1..Len(chat) :
       chat[n].kind = "final" /\ chat[n].text # <<>> /\ chat[n].status = "success"
  /\ \E i \in 1..Len(finishCodes) : finishCodes[i].code = 0

(***************************************************************************)
(* C28: the size of the streamer's updates                                 *)
(***************************************************************************)
\* C28: every update the streamer has in flight, the periodic ones and the
\* final one of finish(), carries at most maxCharsPerMessage characters of
\* buffered output.
C28_UpdatesBounded ==
  ~envelope =>
    \A i \in 1..Len(calls) :
      calls[i].op = "update" => Len(calls[i].content.text) <= MaxChars

(***************************************************************************)
(* C30: a failed envelope post                                             *)
(***************************************************************************)
\* the chunks the log must hold: all those pushed before finish() was called
Logged ==
  LET k == IF finishCodes = <<>> THEN Len(pushed) ELSE finishCodes[1].at
  IN  [i \in 1..k |-> LogEntry("data", pushed[i], 0)]

\* C30: when the post of an envelope is rejected, nothing but that call goes:
\* the parser, its buffers and its messages, the log, the script of the
\* subprocess and the other calls in flight are as before, and the log still
\* holds the chunks pushed so far.  Whatever happened to earlier posts, every
\* envelope the parser emits in a step gets a post of its own in that step.
C30_FailedPostIsolated ==
  [][ /\ \A c \in {calls[i] : i \in 1..Len(calls)} :
           (Settles("envelope", c) /\ chat' = chat) =>
             /\ parser' = parser
             /\ logWriter' = logWriter
             /\ <<script, pushed, finishCodes, started>>' = <<script, pushed, finishCodes, started>>
             /\ IsPrefix(Logged, SubSeq(logWriter'.file, 2, Len(logWriter'.file)))
      /\ (envelope /\ Len(parser'.out) > Len(parser.out)) =>
           LET new == Len(parser'.out) - Len(parser.out)
           IN  /\ Len(calls') = Len(calls) + new
               /\ \A j \in 1..new :
                    LET c   == calls'[Len(calls) + j]
                        msg == parser'.out[Len(parser.out) + j]
                    IN  /\ c.op = "post" /\ c.k = "envelope"
                        /\ c.content.text = msg.text /\ c.content.type = msg.type
                        /\ (c.content.kind = "incomplete") = msg.incomplete ]_vars

\* the post of the first envelope was rejected, and the second envelope,
\* parsed from later chunks, is the only message in the chat
C30_Witness ==
  /\ envelope /\ calls = <<>>
  /\ Len(parser.out) = 2 /\ parser.out[1].text = <<"a">>
  /\ chat = << EnvelopePost(parser.out[2]) >>
  /\ Len(logWriter.file) >= 4

(***************************************************************************)
(* C21: the timers of a finalised session                                  *)
(***************************************************************************)
\* finalise() has called router.finish(), and the call went through the
\* parser's flush() or the streamer's finish()
Finalised == \E i \in 1..Len(finishCodes) : ~finishCodes[i].threw

\* C21: once the session is finalised none of the router's timers is armed:
\* not the parser's activation timer, not its unclosed-timeout (the one the
\* parser refers to or one it has lost track of), not the streamer's flush
\* interval.
C21_NoTimerAfterFinalise ==
  Finalised =>
    /\ streamer.flushTimer # "armed"
    /\ envelope => /\ parser.activationTimer # "armed"
                   /\ parser.unclosedTimer # "armed"
                   /\ parser.orphanTimers = 0

(***************************************************************************)
(* C22, C23: stop() and sendInput() (SpecControl)                          *)
(***************************************************************************)
\* the step is a call of op whose outcome is recorded in control
Calls(op) == control'.op = op /\ control' # control

\* C22: stop(identifier) returns true iff the identifier is the key of a thread
\* that has a session in the map or the id of a session in the map; the process
\* it kills is that of the session under the thread key, or else of the session
\* with that id, and no other process is touched; the session map, every
\* status, the finalisations under way and the thread bindings are as before.
C22_StopOnlyKills ==
  [][ Calls("stop") =>
        LET identifier == control'.arg
            byKey == {sessions[t] : t \in {u \in Procs : identifier = <<"ts", u>>}} \ {0}
            byId  == {sessions[t] : t \in Procs} \cap
                       {p \in Procs : identifier = <<"id", p>>}
            match == IF byKey # {} THEN byKey ELSE byId
        IN  /\ control'.found <=> match # {}
            /\ control'.found => /\ match = {control'.target}
                                 /\ handles'[control'.target].killed = handles[control'.target].alive
            /\ \A p \in Procs :
                 p \notin match => handles'[p] = handles[p]
            /\ \A p \in match :
                 handles'[p] = [handles[p] EXCEPT !.killed = handles'[p].killed]
            /\ <<sessions, sessionObj, threadBindings, finalising, effects>>'
                 = <<sessions, sessionObj, threadBindings, finalising, effects>> ]_vars

\* stop() was given the id of the session of the second spawn, registered under
\* the key of the first thread, and has killed its running process; the
\* session is still in the map, its status running
C22_Witness ==
  /\ control.op = "stop" /\ control.arg = <<"id", 2>> /\ control.found
  /\ sessions[1] = 2 /\ handles[2].killed /\ handles[2].alive
  /\ sessionObj[2].status = "running"

\* C23: sendInput(threadKey, text) writes to a process iff a session with
\* status running is registered under the key, and then to the process of that
\* session; whether it writes or not, it changes nothing of the manager's state.
C23_InputOnlyToRunning ==
  [][ Calls("sendInput") =>
        LET t == control'.arg[2]
        IN  /\ control'.found <=>
                 (sessions[t] # 0 /\ sessionObj[sessions[t]].status = "running")
            /\ control'.found => control'.target = sessions[t]
            /\ ~control'.found => control'.target = 0
            /\ sessionVars' = sessionVars ]_vars

\* nothing was written for a thread whose session is being finalised after its
\* timeout: it is still in the map and its process still runs
C23_Witness ==
  /\ control.op = "sendInput" /\ ~control.found
  /\ \E t \in Procs :
       /\ control.arg = <<"ts", t>>
       /\ sessions[t] # 0
       /\ sessionObj[sessions[t]].status = "timed_out"
       /\ handles[sessions[t]].alive
       /\ \E task \in finalising : task.thread = t

(***************************************************************************)
(* C24: the status of a session (Spec)                                     *)
(***************************************************************************)
\* C24: the status of a session goes from running to exited or to timed_out
\* and nowhere else: once it has left running, the status and the exit code
\* stay as they are.
C24_StatusMachine ==
  [][ \A p \in Procs :
        LET s == sessionObj[p]
            n == sessionObj'[p]
        IN  /\ s.status = "none" => n.status \in {"none", "running"}
            /\ s.status = "running" => n.status \in {"running", "exited", "timed_out"}
            /\ s.status \in {"exited", "timed_out"} =>
                 n.status = s.status /\ n.exitCode = s.exitCode ]_vars

(***************************************************************************)
(* C38: the text of an emitted message (SpecParser)                        *)
(***************************************************************************)
\* C38: every message the parser has emitted, by a close marker, by the
\* unclosed-timeout or by flush(), has a text that is not empty.
C38_NoEmptyMessage ==
  \A i \in 1..Len(parser.out) : parser.out[i].text # <<>>

(***************************************************************************)
(* C37: the parser's timer and buffers (SpecParser)                        *)
(***************************************************************************)
\* C37: the unclosed-timeout timer is armed exactly when the parser is
\* CAPTURING, and never a second one beside it; the capture buffer is empty
\* whenever the parser is SCANNING and the scan buffer is empty whenever it is
\* CAPTURING.
C37_TimerInvariant ==
  /\ (parser.unclosedTimer = "armed") <=> (parser.state = "capturing")
  /\ parser.orphanTimers = 0
  /\ parser.state = "scanning" => parser.captureBuffer = <<>>
  /\ parser.state = "capturing" => parser.scanBuffer = <<>>

\* the parser is SCANNING again, its timer not armed, after the timeout fired
\* on a capture that was flushed as an incomplete message, and it is CAPTURING
\* once more further on
C37_Witness ==
  /\ timeouts = 1 /\ hist.event = "timeout" /\ hist.cap # <<>>
  /\ parser.state = "capturing" /\ parser.unclosedTimer = "armed"
  /\ parser.captureBuffer # <<>>
  /\ Len(parser.out) >= 1 /\ parser.out[1].incomplete

(***************************************************************************)
(* C32: the size of the scan buffer (SpecParser)                           *)
(***************************************************************************)
\* C32: whenever the parser is SCANNING after a push, a timer or a flush has
\* returned, the scan buffer holds at most SCAN_TAIL characters.
C32_ScanBufferBounded ==
  parser.state = "scanning" => Len(parser.scanBuffer) <= SCAN_TAIL

\* a close marker was followed by more marker-free text than the tail holds:
\* the envelope was emitted and the scan buffer holds the last SCAN_TAIL
\* characters of the text
C32_Witness ==
  /\ scen.kind = "other" /\ rest = <<>> /\ Len(scen.text) > PadLen
  /\ parser.state = "scanning" /\ Len(parser.out) = 1
  /\ parser.scanBuffer = Fill(SCAN_TAIL)

(***************************************************************************)
(* C39: the text pushed before activation (SpecParser)                     *)
(***************************************************************************)
\* C39: two runs that were given the same chunks after activation, one of them
\* any chunks before it, have emitted the same messages and are in the same
\* state with the same buffers: the parser, whatever was pushed to it before
\* its activation, is as the parser that was pushed nothing before it.
C39_EarlyTextIgnored ==
  (parser.activated /\ timeouts = 0 /\ flushes = 0) =>
    /\ parser.out = shadow.out
    /\ parser.state = shadow.state
    /\ parser.scanBuffer = shadow.scanBuffer
    /\ parser.captureBuffer = shadow.captureBuffer
    /\ parser.currentType = shadow.currentType

\* the open marker was pushed before the activation and the close marker after
\* it: nothing was emitted
C39_Witness ==
  /\ "early" \in scen.events /\ parser.activated /\ timeouts = 0 /\ flushes = 0
  /\ rest = <<>> /\ scen.kind = "round"
  /\ Len(scen.text) - Len(fed) >= Len(OpenMarker(scen.type))
  /\ Len(fed) >= Len(CloseMarker)
  /\ parser.out = <<>>

(***************************************************************************)
(* C36: the end marker of the log (SpecRouter)                             *)
(***************************************************************************)
\* C36: however many times finish() has run, the log holds at most one end
\* marker, the marker carries the exit code of the first finish(), and it is
\* the last line of the log.
C36_LogClosedOnce ==
  started =>
    LET f    == logWriter.file
        ends == {i \in 1..Len(f) : f[i].kind = "end"}
    IN  /\ Cardinality(ends) <= 1
        /\ \A i \in ends : i = Len(f) /\ f[i].code = finishCodes[1].code

(***************************************************************************)
(* C34: output that arrives after finish() (SpecRouter)                    *)
(***************************************************************************)
\* C34: once finish() has run, a chunk the process handle still delivers
\* causes no reporter call: no envelope is posted, no streamer update is sent.
C34_InertAfterFinish ==
  [][ (Finalised /\ Len(pushed') > Len(pushed)) => calls' = calls ]_vars

(***************************************************************************)
(* C35: the order of the streamer's chat writes (SpecRouter)               *)
(***************************************************************************)
\* message n shows in the next state all the output it shows now
KeepsOutput(n) ==
  \/ chat'[n] = chat[n]
  \/ IsPrefix(chat[n].text, chat'[n].text)
  \/ IsPrefix(trim(chat[n].text), chat'[n].text)

\* C35: the streamer's writes behave as if serialised.  A write to a message
\* that shows output leaves that output on display (no slice is written over
\* another one), and a message that shows the final status keeps showing one.
\* When the final update of finish() is written, no write of a tick is still
\* pending, the message written to is the current one, and no message is left
\* with the placeholder as its content.
C35_WritesSerialised ==
  [][ ~envelope =>
        /\ \A n \in 1..Len(chat) :
             /\ chat[n].kind = "block" => KeepsOutput(n)
             /\ chat[n].kind = "final" => chat'[n].kind = "final"
        /\ \A c \in {calls[i] : i \in 1..Len(calls)} :
             (Settles("finish", c) /\ chat'[c.ts] = c.content /\ streamer'.buffer = <<>>) =>
               /\ c.ts = streamer'.currentTs
               /\ \A i \in 1..Len(calls') : calls'[i].k = "finish"
               /\ \A n \in 1..Len(chat') : chat'[n].kind # "placeholder" ]_vars

(***************************************************************************)
(* C31 (SpecControl), C40 (SpecWrites): what is written to a handle, when  *)
(***************************************************************************)
\* C31: when sendInput forwards to a running session, the input stream of the
\* subprocess receives exactly the text followed by one newline, whether the
\* handle wraps a pseudo-terminal or a piped child process.
C31_TextAndOneNewline ==
  (control.op = "sendInput" /\ control.found) =>
    /\ \E text \in InputTexts : control.writes = <<text \o <<"LF">>>>
    /\ control.received = control.writes[1]

\* C40: no write is issued to a process handle after the exit callback of its
\* process has fired, neither by sendInput nor by the delayed first write of an
\* interactive session.
C40_NoWriteAfterExit ==
  (control.op \in {"sendInput", "initDelay"} /\ control.writes # <<>>) =>
    handles[control.target].firings = 0

(***************************************************************************)
(* C33: whose session a callback finalises (Spec)                          *)
(***************************************************************************)
\* C33: the exit callback and the timeout timer of one subprocess finalise only
\* the session that owns that subprocess: a step of theirs changes the status
\* of no other session, finishes the Router and closes the log of no other
\* session, and removes no other session from the map.
C33_OwnSessionOnly ==
  [][ \A p \in Procs, c \in Causes :
        /\ effects'[p][c].calls > effects[p][c].calls =>
             /\ \A q \in Procs \ {p} : sessionObj'[q] = sessionObj[q]
             /\ \A task \in finalising' \ finalising : task.o = p
        /\ ( \/ effects'[p][c].calls > effects[p][c].calls
             \/ effects'[p][c].deletes > effects[p][c].deletes ) =>
             \A t \in Procs : sessions'[t] # sessions[t] => sessions[t] = p ]_vars

============================================================================
